---------------------------- MODULE Spec2Model ----------------------------
(***************************************************************************)
(* A model of the corpus segmentation jobs (corpus/segments.py) and of the *)
(* RETURNN config and training jobs (returnn/config.py,                    *)
(* returnn/training.py).                                                   *)
(*                                                                         *)
(* Every job object is one variable holding a record of the object's       *)
(* fields, the files it writes included.  Each job has its own             *)
(* specification: its Init draws the constructor arguments and the input   *)
(* files from bounded sets, its actions are the job's methods.             *)
(*                                                                         *)
(* Text is a sequence of one-character strings, so that strip(),           *)
(* concatenation and sorted() are computed, not assumed.  A Python float   *)
(* is its exact binary value, a sequence of bits, and float arithmetic     *)
(* rounds to 53 significant bits as IEEE-754 binary64 does.                *)
(***************************************************************************)
EXTENDS Integers, Sequences, FiniteSets, TLC

VARIABLES
    shuffle_job,   \* a ShuffleAndSplitSegments object, its input and output files
    split_job,     \* a SplitSegmentFile object, its input and output files
    corpus_job,    \* a SegmentCorpusBySpeaker / SegmentCorpusByRegex object
    update_job,    \* an UpdateSegmentsWithSegmentMap object
    rc,            \* a ReturnnConfig object and the last value its hash() returned
    train_job,     \* a ReturnnTrainingJob: its arguments, digest input and files
    sort_job       \* a SortSegmentsByLengthAndShuffle object, its input and output

vars == <<shuffle_job, split_job, corpus_job, update_job, rc, train_job,
          sort_job>>

\* The value of a variable that the specification at hand does not use.
Idle == [pc |-> "idle"]

-----------------------------------------------------------------------------
(* Text *)

\* The characters of the model in code-point order (Python compares str by
\* code point): "\n" 10, " " 32, "-" 45, "/" 47, digits, lower-case letters.
CodePoints ==
    << "\n", " ", "-", "/",
       "0", "1", "2", "3", "4", "5", "6", "7", "8", "9",
       "a", "b", "c", "d", "e", "f", "g", "h", "i", "j", "k", "l", "m",
       "n", "o", "p", "q", "r", "s", "t", "u", "v", "w", "x", "y", "z" >>

ord(c) == CHOOSE i \in 1..Len(CodePoints) : CodePoints[i] = c

\* str.isspace for the characters of the model.
IsSpace(c) == c \in {"\n", " "}

\* s < t for two str.
RECURSIVE StrLess(_, _)
StrLess(s, t) ==
    IF t = <<>> THEN FALSE
    ELSE IF s = <<>> THEN TRUE
    ELSE IF Head(s) = Head(t) THEN StrLess(Tail(s), Tail(t))
    ELSE ord(Head(s)) < ord(Head(t))

\* sorted() with the order turned around.
RECURSIVE sorted_descending(_)
sorted_descending(S) ==
    IF S = {} THEN <<>>
    ELSE LET m == CHOOSE x \in S : \A y \in S \ {x} : StrLess(y, x)
         IN  <<m>> \o sorted_descending(S \ {m})

\* sorted(keys) for a set of str.
RECURSIVE sorted(_)
sorted(S) ==
    IF S = {} THEN <<>>
    ELSE LET m == CHOOSE x \in S : \A y \in S \ {x} : StrLess(x, y)
         IN  <<m>> \o sorted(S \ {m})

RECURSIVE lstrip(_)
lstrip(s) == IF s # <<>> /\ IsSpace(Head(s)) THEN lstrip(Tail(s)) ELSE s

RECURSIVE rstrip(_)
rstrip(s) ==
    IF s # <<>> /\ IsSpace(s[Len(s)]) THEN rstrip(SubSeq(s, 1, Len(s) - 1)) ELSE s

\* str.strip()
strip(s) == rstrip(lstrip(s))

\* The set of the elements of a sequence.
Range(s) == {s[i] : i \in DOMAIN s}

\* seq[lo:hi] for 0 <= lo, 0 <= hi: Python's slice clamps to the length.
Slice(s, lo, hi) ==
    LET h == IF hi > Len(s) THEN Len(s) ELSE hi
    IN  IF lo >= h THEN <<>> ELSE SubSeq(s, lo + 1, h)

\* All sequences over S of length at most n.
SeqsUpTo(S, n) == UNION {[1..k -> S] : k \in 0..n}

\* The orderings of a finite set: the sequences that list each element once.
Orderings(S) == {p \in [1..Cardinality(S) -> S] : Range(p) = S}

-----------------------------------------------------------------------------
(* Python floats *)

\* A float x >= 0 is its exact value, written in base 2^LimbBits as NLimbs
\* digits ("limbs"), most significant first, with IntBits bits before the
\* binary point.  Arithmetic is exact on the limbs and then rounded to
\* MantissaBits significant bits, to nearest, ties to even, as IEEE-754
\* binary64 does.  Every float the jobs compute here is 0 or at least 2^-4
\* and below 2^IntBits, so all its significant bits fit.
LimbBits == 11
NLimbs == 6
IntBits == 6
MantissaBits == 53

W == NLimbs * LimbBits

\* 2^k for 0 <= k <= 12.
Pow2(k) == <<1, 2, 4, 8, 16, 32, 64, 128, 256, 512, 1024, 2048, 4096>>[k + 1]

Base == Pow2(LimbBits)

\* A limb sequence as a tuple.
Limbs(f) == SubSeq(f, 1, NLimbs)

FZero == Limbs([j \in 1..NLimbs |-> 0])

\* Bit i (1 the most significant, W the least) of x.
Bit(x, i) ==
    (x[(i - 1) \div LimbBits + 1]
        \div Pow2(LimbBits - 1 - ((i - 1) % LimbBits))) % 2

\* The value with the single bit i set.
FUnit(i) ==
    Limbs([j \in 1..NLimbs |->
              IF j = (i - 1) \div LimbBits + 1
              THEN Pow2(LimbBits - 1 - ((i - 1) % LimbBits)) ELSE 0])

\* x with the bits after bit i cleared.
Trunc(x, i) ==
    Limbs([j \in 1..NLimbs |->
              IF j * LimbBits <= i THEN x[j]
              ELSE IF (j - 1) * LimbBits >= i THEN 0
              ELSE (x[j] \div Pow2(j * LimbBits - i)) * Pow2(j * LimbBits - i)])

\* Exact sum (the carry out of the top limb is dropped): the limbs 1..i of
\* a + b, given the carry c into limb i.
RECURSIVE AddFrom(_, _, _, _)
AddFrom(a, b, i, c) ==
    IF i = 0 THEN <<>>
    ELSE LET s == a[i] + b[i] + c
         IN  Append(AddFrom(a, b, i - 1, s \div Base), s % Base)

FAddExact(a, b) == AddFrom(a, b, NLimbs, 0)

\* a < b and a <= b on exact values.
FLess(a, b) ==
    \E i \in 1..NLimbs : /\ a[i] < b[i]
                         /\ \A j \in 1..(i - 1) : a[j] = b[j]

FLeq(a, b) == a = b \/ FLess(a, b)

\* Exact a - b for a >= b (two's complement).
FSubExact(a, b) ==
    FAddExact(FAddExact(a, Limbs([j \in 1..NLimbs |-> Base - 1 - b[j]])),
              FUnit(W))

\* Round an exact value to MantissaBits significant bits.  sticky says that
\* the exact value has further nonzero digits below the last bit of x.
FRound(x, sticky) ==
    IF x = FZero THEN FZero
    ELSE LET j0   == CHOOSE j \in 1..NLimbs :
                         x[j] # 0 /\ \A m \in 1..(j - 1) : x[m] = 0
             p    == CHOOSE i \in ((j0 - 1) * LimbBits + 1)..(j0 * LimbBits) :
                         /\ Bit(x, i) = 1
                         /\ \A m \in ((j0 - 1) * LimbBits + 1)..(i - 1) :
                                Bit(x, m) = 0
             last == p + MantissaBits - 1
         IN  IF last >= W THEN x
             ELSE LET guard == Bit(x, last + 1)
                      rest  == sticky \/ x # Trunc(x, last + 1)
                      kept  == Trunc(x, last)
                  IN  IF guard = 1 /\ (rest \/ Bit(x, last) = 1)
                      THEN FAddExact(kept, FUnit(last))
                      ELSE kept

\* a + b on floats.
FAdd(a, b) == FRound(FAddExact(a, b), FALSE)

\* float(n) for an int 0 <= n < 2^IntBits.
FOfInt(n) ==
    Limbs([j \in 1..NLimbs |-> IF j = 1 THEN n * Pow2(LimbBits - IntBits) ELSE 0])

\* n * c for an int 0 <= n < 2^IntBits and a float c: the exact product,
\* rounded once.
RECURSIVE MulFrom(_, _, _, _)
MulFrom(n, c, i, carry) ==
    IF i = 0 THEN <<>>
    ELSE LET s == n * c[i] + carry
         IN  Append(MulFrom(n, c, i - 1, s \div Base), s % Base)

FMul(n, c) == FRound(MulFrom(n, c, NLimbs, 0), FALSE)

\* int(x) for a float x >= 0: the integer part.
int(x) == x[1] \div Pow2(LimbBits - IntBits)

\* The float a decimal literal k/10 (0 <= k < 10 * 2^IntBits) denotes: the
\* expansion of k/10 by long division, correctly rounded.  DivDigits(r, n)
\* are the next n limbs of r/10, DivRem(r, n) is what is left after them.
RECURSIVE DivDigits(_, _)
DivDigits(r, n) ==
    IF n = 0 THEN <<>>
    ELSE <<(r * Base) \div 10>> \o DivDigits((r * Base) % 10, n - 1)

RECURSIVE DivRem(_, _)
DivRem(r, n) == IF n = 0 THEN r ELSE DivRem((r * Base) % 10, n - 1)

FOfTenths(k) ==
    LET top == k * Pow2(LimbBits - IntBits)
    IN  FRound(<<top \div 10>> \o DivDigits(top % 10, NLimbs - 1),
               DivRem(top % 10, NLimbs - 1) # 0)

\* abs(x - 1.0) < 1e-10.  x - 1.0 is exact whenever it is that small, and
\* the float 1e-10 lies strictly between TolUnits and TolUnits + 1 times
\* 2^-(W - IntBits) = 2^-60.
TolUnits == 115292150

\* The value of the limbs 1..i of d in units of the last bit, or
\* TolUnits + 1 if it is larger than TolUnits.
RECURSIVE CappedValue(_, _)
CappedValue(d, i) ==
    IF i = 0 THEN 0
    ELSE LET h == CappedValue(d, i - 1)
         IN  IF h > TolUnits \div Base THEN TolUnits + 1
             ELSE IF h * Base + d[i] > TolUnits THEN TolUnits + 1
             ELSE h * Base + d[i]

FNearOne(x) ==
    LET one == FOfInt(1)
        d   == IF FLeq(one, x) THEN FSubExact(x, one) ELSE FSubExact(one, x)
    IN  CappedValue(d, NLimbs) <= TolUnits

-----------------------------------------------------------------------------
(* Values shared by the jobs *)

\* Python's None.
NoneVal == [tag |-> "None"]

IsNone(v) == v.tag = "None"

\* A dict in insertion order: a sequence of <<key, value>> with distinct keys.
Dict(items) == [tag |-> "dict", items |-> items]

\* A list.
List(items) == [tag |-> "list", items |-> items]

keys(d) == {d.items[i][1] : i \in DOMAIN d.items}

\* d[k] for a key of d.
get(d, k) == LET i == CHOOSE j \in DOMAIN d.items : d.items[j][1] = k
             IN  d.items[i][2]

\* The dicts in every insertion order with keys from K (at most n of them)
\* and values from V.
Dicts(K, V, n) ==
    UNION {{Dict([i \in DOMAIN o |-> <<o[i], v[i]>>])
               : <<o, v>> \in Orderings(D) \X [1..Cardinality(D) -> V]}
           : D \in {D \in SUBSET K : Cardinality(D) <= n}}

\* What == compares of a dict: its items, whatever their order.
ItemSet(d) == Range(d.items)

-----------------------------------------------------------------------------
(* ShuffleAndSplitSegments *)

dev   == <<"d", "e", "v">>
test  == <<"t", "e", "s", "t">>
train == <<"t", "r", "a", "i", "n">>

\* A proportion is written as a decimal literal k/10 and held as k; the
\* float it denotes is FOfTenths(k) for k >= 0.
MaxTenths == 9
Tenths == (-1)..MaxTenths

\* Two literals a/10 and b/10 compared as floats with ==.
FEqTenths(a, b) ==
    /\ (a < 0) = (b < 0)
    /\ FOfTenths(IF a < 0 THEN -a ELSE a) = FOfTenths(IF b < 0 THEN -b ELSE b)

default_split == Dict(<< <<train, 9>>, <<dev, 1>> >>)

MaxKeys == 3
SplitNames == {dev, test, train}

\* The split arguments of the model: omitted, a dict, or a list (not a dict).
SplitArgs ==
    {NoneVal, List(<<5, 3, 2>>)} \cup Dicts(SplitNames, Tenths, MaxKeys)

MaxSeed == 0

ShuffleKwargs ==
    [segment_file : {"in.segments"}, split : SplitArgs,
     shuffle : BOOLEAN, shuffle_seed : 0..MaxSeed]

\* The i-th line of an input file: a letter and a newline.
MaxLines == 10
MaxShuffled == 3
Line(i) == <<CodePoints[14 + i], "\n">>
FileOfLen(n) == [i \in 1..n |-> Line(i)]

\* sum(fs) of floats: 0 + fs[1] + fs[2] + ..., rounded at every step.
RECURSIVE sum(_)
sum(fs) ==
    IF fs = <<>> THEN FZero
    ELSE FAdd(sum(SubSeq(fs, 1, Len(fs) - 1)), fs[Len(fs)])

\* itertools.accumulate(fs): the running sums, the first one being fs[1].
RECURSIVE accumulate(_)
accumulate(fs) ==
    IF Len(fs) <= 1 THEN fs
    ELSE LET prev == accumulate(SubSeq(fs, 1, Len(fs) - 1))
         IN  Append(prev, FAdd(prev[Len(prev)], fs[Len(fs)]))

\* The three assertions of __init__ on the split.
\* The asserts without the one on the sum.
SplitAccepted_no_sum(split) ==
    /\ split.tag = "dict"
    /\ \A i \in DOMAIN split.items : split.items[i][2] > 0

SplitAccepted(split) ==
    /\ split.tag = "dict"
    /\ \A i \in DOMAIN split.items : split.items[i][2] > 0
    /\ FNearOne(sum([i \in DOMAIN split.items |-> FOfTenths(split.items[i][2])]))

\* split_idx without the last boundary being set to n.
split_idx_last_not_forced(split, n) ==
    LET ordered_keys == sorted(keys(split))
        acc == accumulate([i \in DOMAIN ordered_keys |->
                              FOfTenths(get(split, ordered_keys[i]))])
    IN  <<0>> \o [i \in DOMAIN acc |-> int(FMul(n, acc[i]))]

\* split_idx of run: 0, then int(n * c) for every running sum c of the
\* proportions in sorted key order, the last entry overwritten by n.
split_idx(split, n) ==
    LET ordered_keys == sorted(keys(split))
        acc == accumulate([i \in DOMAIN ordered_keys |->
                              FOfTenths(get(split, ordered_keys[i]))])
        idx == <<0>> \o [i \in DOMAIN acc |-> int(FMul(n, acc[i]))]
    IN  [idx EXCEPT ![Len(idx)] = n]

\* The files run writes: one per key, the slice between two boundaries.
SplitFiles(split, segments) ==
    LET ordered_keys == sorted(keys(split))
        idx == split_idx(split, Len(segments))
    IN  [k \in keys(split) |->
            LET i == CHOOSE j \in DOMAIN ordered_keys : ordered_keys[j] = k
            IN  Slice(segments, idx[i], idx[i + 1])]

\* hash(kwargs) that leaves a split equal to the default in place.
ShuffleHash_keeps_default(kwargs) ==
    [kwargs EXCEPT
        !.split = IF @.tag = "dict"
                  THEN [tag |-> "dict", items |-> ItemSet(@)] ELSE @]

\* hash(kwargs): the dict handed to Job.hash.  A split equal to the default
\* is replaced by None.
ShuffleHash(kwargs) ==
    LET split == kwargs.split
        isDefault ==
            /\ Len(split.items) = Len(default_split.items)
            /\ \A i \in DOMAIN split.items :
                   /\ split.items[i][1] \in keys(default_split)
                   /\ FEqTenths(get(default_split, split.items[i][1]),
                                split.items[i][2])
        kwargs_copy == IF ~IsNone(split) /\ isDefault
                       THEN [kwargs EXCEPT !.split = NoneVal]
                       ELSE kwargs
    IN  [kwargs_copy EXCEPT
            !.split = IF @.tag = "dict"
                      THEN [tag |-> "dict", items |-> ItemSet(@)] ELSE @]

ShuffleInit ==
    /\ shuffle_job \in
           [pc : {"new"}, kwargs : ShuffleKwargs, digest : {NoneVal},
            split : {NoneVal}, output_paths : {{}}, segments : {<<>>},
            new_segments : {<<>>}]
    /\ split_job = Idle /\ corpus_job = Idle /\ update_job = Idle
    /\ rc = Idle /\ train_job = Idle
    /\ sort_job = Idle

ShuffleIdle == UNCHANGED <<sort_job, split_job, corpus_job, update_job, rc, train_job>>

\* The framework computes the job's identity from the arguments first.
ShuffleAndSplitSegments_hash ==
    /\ shuffle_job.pc = "new"
    /\ shuffle_job' = [shuffle_job EXCEPT
           !.pc = "hashed", !.digest = ShuffleHash(shuffle_job.kwargs)]
    /\ ShuffleIdle

\* __init__: an omitted split becomes a copy of the default; a split that
\* fails an assertion ends the construction, before self.new_segments
\* registers an output path per key.
ShuffleAndSplitSegments_init ==
    /\ shuffle_job.pc = "hashed"
    /\ LET split == IF IsNone(shuffle_job.kwargs.split)
                    THEN default_split ELSE shuffle_job.kwargs.split
       IN  IF SplitAccepted(split)
           THEN shuffle_job' = [shuffle_job EXCEPT
                    !.pc = "constructed", !.split = split,
                    !.output_paths = keys(split)]
           ELSE shuffle_job' = [shuffle_job EXCEPT !.pc = "AssertionError"]
    /\ ShuffleIdle

\* run: read the file, shuffle it when asked to, write the slices.  The
\* permutation random.Random(seed).shuffle produces is left open.
ShuffleAndSplitSegments_run ==
    /\ shuffle_job.pc = "constructed"
    /\ \E n \in 0..MaxLines :
          \E perm \in IF shuffle_job.kwargs.shuffle /\ n <= MaxShuffled
                      THEN Orderings(1..n) ELSE {[i \in 1..n |-> i]} :
             LET lines == FileOfLen(n)
                 segments == [i \in 1..n |-> lines[perm[i]]]
             IN  /\ shuffle_job.kwargs.shuffle => n <= MaxShuffled
                 /\ shuffle_job' = [shuffle_job EXCEPT
                        !.pc = "done",
                        !.segments = segments,
                        !.new_segments =
                            SplitFiles(shuffle_job.split, segments)]
    /\ ShuffleIdle

ShuffleNext ==
    \/ ShuffleAndSplitSegments_hash
    \/ ShuffleAndSplitSegments_init
    \/ ShuffleAndSplitSegments_run

SpecShuffle == ShuffleInit /\ [][ShuffleNext]_vars

\* The lines of the splits, one split after the other in the given key order.
RECURSIVE SplitsInOrder(_, _)
SplitsInOrder(files, ks) ==
    IF ks = <<>> THEN <<>>
    ELSE files[Head(ks)] \o SplitsInOrder(files, Tail(ks))

\* C1: after run, the splits taken in sorted key order are consecutive
\* slices of the (possibly shuffled) list of lines; slice i ends at
\* floor(n * (p1 + ... + pi)), the last one at n; put one after the other
\* they are the whole list, so they are disjoint, cover every line once and
\* their sizes add up to n.
C1_SplitsAreConsecutiveSlices ==
    shuffle_job.pc = "done" =>
        LET job == shuffle_job
            n   == Len(job.segments)
            ks  == sorted(keys(job.split))
            cum == accumulate([i \in DOMAIN ks |-> FOfTenths(get(job.split, ks[i]))])
            b   == [i \in 0..Len(ks) |->
                       IF i = 0 THEN 0
                       ELSE IF i = Len(ks) THEN n
                       ELSE int(FMul(n, cum[i]))]
        IN  /\ Range(job.segments) = Range(FileOfLen(n))
            /\ ~job.kwargs.shuffle => job.segments = FileOfLen(n)
            /\ DOMAIN job.new_segments = keys(job.split)
            /\ \A i \in 1..Len(ks) :
                   /\ b[i - 1] <= b[i]
                   /\ job.new_segments[ks[i]] = SubSeq(job.segments, b[i - 1] + 1, b[i])
            /\ SplitsInOrder(job.new_segments, ks) = job.segments
            /\ \A i, j \in 1..Len(ks) :
                   i # j => Range(job.new_segments[ks[i]])
                                \cap Range(job.new_segments[ks[j]]) = {}

\* A run of C1's case: three splits whose proportions add up to less than
\* 1.0 in floating point (0.2 + 0.7 + 0.1 = 0.9999999999999999), on a
\* shuffled file.
C1_Witness ==
    /\ shuffle_job.pc = "done"
    /\ shuffle_job.kwargs.shuffle
    /\ ItemSet(shuffle_job.split) = {<<dev, 2>>, <<test, 7>>, <<train, 1>>}
    /\ sum([i \in 1..3 |-> FOfTenths(<<2, 7, 1>>[i])]) # FOfInt(1)
    /\ Len(shuffle_job.segments) = 3
    /\ shuffle_job.segments # FileOfLen(3)

\* The scenario of C2: the default split, given or omitted, no shuffling,
\* the ten lines a..j.
C2_Scenario ==
    /\ shuffle_job.pc = "done"
    /\ ~shuffle_job.kwargs.shuffle
    /\ ItemSet(shuffle_job.split) = {<<train, 9>>, <<dev, 1>>}
    /\ shuffle_job.segments = FileOfLen(10)

\* C2 as stated: train receives the first nine lines and dev the last one.
C2_TrainFirstNine ==
    C2_Scenario =>
        /\ shuffle_job.new_segments[train] = SubSeq(FileOfLen(10), 1, 9)
        /\ shuffle_job.new_segments[dev] = <<Line(10)>>

\* C2, amended: the splits are cut in sorted key order, so dev receives the
\* first line (a) and train the last nine (b..j).
C2_DevFirstLine ==
    C2_Scenario =>
        /\ shuffle_job.new_segments[dev] = <<Line(1)>>
        /\ shuffle_job.new_segments[train] = SubSeq(FileOfLen(10), 2, 10)

C2_Witness == C2_Scenario /\ IsNone(shuffle_job.kwargs.split)

\* C4: a job given a split equal to the default (same keys, same values,
\* any key order) has the digest input of the job with the split omitted.
C4_DefaultSplitHashesAsOmitted ==
    (/\ shuffle_job.pc # "new"
     /\ shuffle_job.kwargs.split.tag = "dict"
     /\ ItemSet(shuffle_job.kwargs.split) = {<<train, 9>>, <<dev, 1>>})
    => shuffle_job.digest =
           ShuffleHash([shuffle_job.kwargs EXCEPT !.split = NoneVal])

\* The default given explicitly, its keys in the other order.
C4_Witness ==
    /\ shuffle_job.pc = "hashed"
    /\ shuffle_job.kwargs.split = Dict(<< <<dev, 1>>, <<train, 9>> >>)
    /\ IsNone(shuffle_job.digest.split)

\* The proportions of a split in tenths, added up as numbers.
RECURSIVE TenthsTotal(_)
TenthsTotal(items) ==
    IF items = <<>> THEN 0 ELSE Head(items)[2] + TenthsTotal(Tail(items))

\* A split as the job is documented to take it: a dict of proportions above
\* 0 that add up to 1.
ValidSplit(split) ==
    /\ split.tag = "dict"
    /\ \A i \in DOMAIN split.items : split.items[i][2] > 0
    /\ TenthsTotal(split.items) = 10

\* C15: the construction ends in AssertionError, with no output path
\* registered and no file written, exactly if the split (the default when
\* omitted) is no dict, holds a proportion that is not above 0 or does not
\* add up to 1; a constructed job holds the split as it was given, and one
\* output path per key.
C15_InvalidSplitFailsFast ==
    LET given == IF IsNone(shuffle_job.kwargs.split)
                 THEN default_split ELSE shuffle_job.kwargs.split
    IN  /\ shuffle_job.pc = "AssertionError" =>
               /\ ~ValidSplit(given)
               /\ shuffle_job.output_paths = {}
               /\ shuffle_job.new_segments = <<>>
        /\ shuffle_job.pc \in {"constructed", "done"} =>
               /\ ValidSplit(given)
               /\ shuffle_job.split = given
               /\ shuffle_job.output_paths = keys(given)

\* A construction that failed on a dict of positive proportions that add
\* up to 0.9.
C15_Witness ==
    /\ shuffle_job.pc = "AssertionError"
    /\ shuffle_job.kwargs.split = Dict(<< <<train, 5>>, <<dev, 4>> >>)

-----------------------------------------------------------------------------
(* SplitSegmentFile *)

\* a % b and a // b of Python, for a >= 0 and b # 0: the remainder has the
\* sign of the divisor and the quotient is rounded down.
PyMod(a, b) == IF b > 0 THEN a % b ELSE -((-a) % (-b))

PyFloorDiv(a, b) ==
    IF b > 0 THEN a \div b ELSE -((a - PyMod(a, b)) \div (-b))

\* An input file: line i is either the i-th letter or a blank line, which
\* is a bare newline at odd i and a space and a newline at even i.
MaxSplitLines == 11
MaxConcurrent == 4
BlankLine(i) == IF i % 2 = 0 THEN <<" ", "\n">> ELSE <<"\n">>
SplitInputs ==
    UNION {{[i \in 1..n |-> IF i \in B THEN BlankLine(i) ELSE Line(i)]
               : B \in SUBSET (1..n)}
           : n \in 0..MaxSplitLines}

\* The loop of run with the extra lines given to the last m groups.
RECURSIVE SplitEnd_extra_at_end(_, _, _)
SplitEnd_extra_at_end(n, concurrent, i) ==
    IF i = 0 THEN 0
    ELSE SplitEnd_extra_at_end(n, concurrent, i - 1)
             + PyFloorDiv(n, concurrent)
             + (IF i > concurrent - PyMod(n, concurrent) THEN 1 ELSE 0)

\* end after the iteration i of the loop of run: the lengths of the first
\* i groups, added up.
RECURSIVE SplitEnd(_, _, _)
SplitEnd(n, concurrent, i) ==
    IF i = 0 THEN 0
    ELSE SplitEnd(n, concurrent, i - 1)
             + PyFloorDiv(n, concurrent)
             + (IF i <= PyMod(n, concurrent) THEN 1 ELSE 0)

\* The files run writes.
SingleSegments(file, concurrent) ==
    LET lines == SelectSeq(file, LAMBDA l : Len(strip(l)) > 0)
        n     == Len(lines)
    IN  [i \in 1..concurrent |->
            Slice(lines, SplitEnd(n, concurrent, i - 1), SplitEnd(n, concurrent, i))]

SplitInit ==
    /\ split_job \in
           [pc : {"constructed"}, segment_file : SplitInputs,
            concurrent : (-1)..MaxConcurrent, single_segments : {<<>>}]
    /\ shuffle_job = Idle /\ corpus_job = Idle /\ update_job = Idle
    /\ rc = Idle /\ train_job = Idle
    /\ sort_job = Idle

\* run; m = n % self.concurrent divides by zero when concurrent is 0.
SplitSegmentFile_run ==
    /\ split_job.pc = "constructed"
    /\ IF split_job.concurrent = 0
       THEN split_job' = [split_job EXCEPT !.pc = "ZeroDivisionError"]
       ELSE split_job' = [split_job EXCEPT
                !.pc = "done",
                !.single_segments =
                    SingleSegments(split_job.segment_file, split_job.concurrent)]
    /\ UNCHANGED <<sort_job, shuffle_job, corpus_job, update_job, rc, train_job>>

SplitNext == SplitSegmentFile_run

SpecSplit == SplitInit /\ [][SplitNext]_vars

\* The lines of the groups 1..i, one group after the other.
RECURSIVE GroupsInOrder(_, _)
GroupsInOrder(files, i) ==
    IF i = 0 THEN <<>> ELSE GroupsInOrder(files, i - 1) \o files[i]

\* A line with a character that is not white space.
NonBlank(l) == \E i \in DOMAIN l : ~IsSpace(l[i])

\* C3: for concurrent = n >= 1 and L non-blank lines, the n groups put one
\* after the other are the non-blank lines in their order; every group has
\* L div n or L div n + 1 lines and no group is larger than one before it;
\* ten lines in three groups give the sizes 4, 3, 3.
C3_ChunksAreBalancedSlices ==
    (split_job.pc = "done" /\ split_job.concurrent >= 1) =>
        LET n     == split_job.concurrent
            lines == SelectSeq(split_job.segment_file, NonBlank)
            L     == Len(lines)
            out   == split_job.single_segments
        IN  /\ DOMAIN out = 1..n
            /\ GroupsInOrder(out, n) = lines
            /\ \A i \in 1..n : Len(out[i]) \in {L \div n, L \div n + 1}
            /\ \A i, j \in 1..n : i < j => Len(out[i]) >= Len(out[j])
            /\ (L = 10 /\ n = 3) => [i \in 1..n |-> Len(out[i])] = <<4, 3, 3>>

\* Ten non-blank lines and a blank one, in three groups.
C3_Witness ==
    /\ split_job.pc = "done"
    /\ split_job.concurrent = 3
    /\ Len(split_job.segment_file) = 11
    /\ split_job.segment_file[2] = BlankLine(2)
    /\ Len(SelectSeq(split_job.segment_file, NonBlank)) = 10
    /\ Len(split_job.single_segments[1]) = 4

\* C14 as stated: a job whose number of groups is zero or negative does
\* not complete; its construction or its run ends in an error.
C14_NonPositiveCountRejected ==
    (split_job.pc # "constructed" /\ split_job.concurrent <= 0)
    => split_job.pc # "done"

-----------------------------------------------------------------------------
(* SegmentCorpusBySpeaker and SegmentCorpusByRegex *)

\* A str value, as opposed to None.
Str(s) == [tag |-> "str", s |-> s]

unknown == <<"u", "n", "k", "n", "o", "w", "n">>
spk12 == <<"s", "p", "k", "1", "2">>
session3 == <<"s", "e", "s", "s", "i", "o", "n", "3">>

\* What regex.search returns: None, or a match object with the text of the
\* whole match and, per capture group, its text or None.
Match(whole, groups) == [tag |-> "match", group0 |-> whole, groups |-> groups]

MaxSegments == 2
MaxGroupsLen == 2

\* The segments at position i of a corpus: their names descend, so that
\* the corpus order is not the sorted one.
FullName(i) == <<"r", "/", CodePoints[14 - i]>>
Name(i) == <<CodePoints[14 - i]>>

Segment(i, speaker, search_name, search_fullname) ==
    [fullname |-> FullName(i), name |-> Name(i), speaker |-> speaker,
     search_name |-> search_name, search_fullname |-> search_fullname]

\* The texts capture group g may hold (None when the group took no part in
\* the match), and the matches of a pattern with ngroups capture groups: the
\* whole match is the groups' texts joined by "-".
GroupTexts(g) == IF g = 1 THEN {NoneVal, Str(spk12)} ELSE {NoneVal, Str(session3)}

Text(g) == IF IsNone(g) THEN <<>> ELSE g.s

Matches(ngroups) ==
    {NoneVal} \cup
    (CASE ngroups = 0 -> {Match(spk12, <<>>), Match(session3, <<>>)}
       [] ngroups = 1 -> {Match(Text(g), <<g>>)
                             : g \in GroupTexts(1) \cup GroupTexts(2)}
       [] ngroups = 2 -> {Match(Text(g[1]) \o <<"-">> \o Text(g[2]), g)
                             : g \in GroupTexts(1) \X GroupTexts(2)})

Speakers == {NoneVal, Str(spk12), Str(session3), Str(unknown)}

\* The corpora of the by-speaker job and, per pattern and choice of
\* use_fullpath, those of the by-regex job (the search on the string the
\* job does not look at finds nothing).
SpeakerCorpora ==
    UNION {{[i \in 1..n |-> Segment(i, sp[i], NoneVal, NoneVal)]
               : sp \in [1..n -> Speakers]} : n \in 0..MaxSegments}

RegexCorpora(ngroups, use_fullpath) ==
    UNION {{[i \in 1..n |->
                IF use_fullpath THEN Segment(i, NoneVal, NoneVal, m[i])
                ELSE Segment(i, NoneVal, m[i], NoneVal)]
               : m \in [1..n -> Matches(ngroups)]} : n \in 0..MaxSegments}

\* match.group(g): group 0 is the whole match; an index above the number
\* of groups raises IndexError.
HasGroup(match, g) == g \in 0..Len(match.groups)

group(match, g) == IF g = 0 THEN Str(match.group0) ELSE match.groups[g]

\* The key SegmentCorpusBySpeaker.run files a segment under.
SpeakerKey(segment) ==
    IF IsNone(segment.speaker) THEN unknown ELSE segment.speaker.s

\* speaker += match.group(g) for g in groups, skipping the groups that are None.
RECURSIVE JoinGroups(_, _)
JoinGroups(match, groups) ==
    IF groups = <<>> THEN <<>>
    ELSE (IF IsNone(group(match, Head(groups))) THEN <<>>
          ELSE group(match, Head(groups)).s)
         \o JoinGroups(match, Tail(groups))

\* The match SegmentCorpusByRegex.run looks at.
Search(job, segment) ==
    IF job.use_fullpath THEN segment.search_fullname ELSE segment.search_name

\* The key taken from group 1, whatever groups are configured.
RegexKey_first_group_only(job, segment) ==
    LET match == Search(job, segment)
    IN  IF ~IsNone(match)
        THEN IF Len(match.groups) > 0
             THEN JoinGroups(match, <<1>>)
             ELSE match.group0
        ELSE unknown

\* The key SegmentCorpusByRegex.run files a segment under.
RegexKey(job, segment) ==
    LET match == Search(job, segment)
    IN  IF ~IsNone(match)
        THEN IF Len(match.groups) > 0
             THEN JoinGroups(match, job.groups)
             ELSE match.group0
        ELSE unknown

\* The run of the by-regex job raises IndexError at a segment that matches
\* with capture groups, none of which has a configured index.
RegexRaises(job) ==
    \E i \in DOMAIN job.corpus :
       LET match == Search(job, job.corpus[i])
       IN  /\ ~IsNone(match)
           /\ Len(match.groups) > 0
           /\ \E j \in DOMAIN job.groups : ~HasGroup(match, job.groups[j])

\* speaker_map of run, speaker[i] being the key of segment i: per key, the
\* full names of its segments in corpus order.
SpeakerMap(corpus, speaker) ==
    [k \in Range(speaker) |->
        LET own == SelectSeq([i \in DOMAIN corpus |-> <<speaker[i], corpus[i]>>],
                             LAMBDA e : e[1] = k)
        IN  [i \in DOMAIN own |-> own[i][2].fullname]]

\* The map-items with the clusters numbered from 0.
RECURSIVE ClusterItems_from_zero(_, _, _)
ClusterItems_from_zero(speaker_map, ordered, idx) ==
    IF idx > Len(ordered) THEN <<>>
    ELSE [i \in DOMAIN speaker_map[ordered[idx]] |->
             <<speaker_map[ordered[idx]][i], idx - 1>>]
         \o ClusterItems_from_zero(speaker_map, ordered, idx + 1)

\* The map-items of cluster.map.xml for the keys idx.. of the sorted keys:
\* <<segment, idx>> for every segment of the key, key after key.
RECURSIVE ClusterItems(_, _, _)
ClusterItems(speaker_map, ordered, idx) ==
    IF idx > Len(ordered) THEN <<>>
    ELSE [i \in DOMAIN speaker_map[ordered[idx]] |->
             <<speaker_map[ordered[idx]][i], idx>>]
         \o ClusterItems(speaker_map, ordered, idx + 1)

\* The output of both jobs for a speaker_map: num_speakers, speaker.map,
\* the files segments/speaker.<idx> and the items of cluster.map.xml.
WriteSpeakerMap(job, speaker_map) ==
    LET ordered == sorted(DOMAIN speaker_map)
    IN  [job EXCEPT
            !.pc = "done",
            !.num_speakers = Cardinality(DOMAIN speaker_map),
            !.speaker_map_file = ordered,
            !.segment_dir = [idx \in DOMAIN ordered |-> speaker_map[ordered[idx]]],
            !.cluster_map_file = ClusterItems(speaker_map, ordered, 1)]

\* The groups argument: None, or a list of distinct group indices.
GroupsArg ==
    {NoneVal} \cup
    {List(g) : g \in {g \in SeqsUpTo(0..2, MaxGroupsLen) :
                         \A i, j \in DOMAIN g : g[i] = g[j] => i = j}}

\* self.groups of SegmentCorpusByRegex.__init__: None stands for [1].
GroupsOf(arg) == IF ~IsNone(arg) THEN arg.items ELSE <<1>>

\* A constructed SegmentCorpusByRegex job for the arguments.
RegexJob(corpus, use_fullpath, groups_arg) ==
    [pc |-> "constructed", class |-> "SegmentCorpusByRegex", corpus |-> corpus,
     use_fullpath |-> use_fullpath, groups |-> GroupsOf(groups_arg),
     groups_arg |-> groups_arg,
     num_speakers |-> 0, speaker_map_file |-> <<>>, segment_dir |-> <<>>,
     cluster_map_file |-> <<>>]

CorpusJobs ==
    [pc : {"constructed"}, class : {"SegmentCorpusBySpeaker"},
     corpus : SpeakerCorpora, use_fullpath : {FALSE}, groups : {<<>>},
     groups_arg : {NoneVal},
     num_speakers : {0}, speaker_map_file : {<<>>}, segment_dir : {<<>>},
     cluster_map_file : {<<>>}]
    \cup
    UNION {{RegexJob(c, use_fullpath, g)
               : <<c, g>> \in RegexCorpora(ngroups, use_fullpath) \X GroupsArg}
           : <<ngroups, use_fullpath>> \in (0..2) \X BOOLEAN}

CorpusInit ==
    /\ corpus_job \in CorpusJobs
    /\ shuffle_job = Idle /\ split_job = Idle /\ update_job = Idle
    /\ rc = Idle /\ train_job = Idle
    /\ sort_job = Idle

CorpusIdle == UNCHANGED <<sort_job, shuffle_job, split_job, update_job, rc, train_job>>

SegmentCorpusBySpeaker_run ==
    /\ corpus_job.pc = "constructed"
    /\ corpus_job.class = "SegmentCorpusBySpeaker"
    /\ corpus_job' =
           WriteSpeakerMap(corpus_job,
               SpeakerMap(corpus_job.corpus,
                          [i \in DOMAIN corpus_job.corpus |->
                              SpeakerKey(corpus_job.corpus[i])]))
    /\ CorpusIdle

SegmentCorpusByRegex_run ==
    /\ corpus_job.pc = "constructed"
    /\ corpus_job.class = "SegmentCorpusByRegex"
    /\ IF RegexRaises(corpus_job)
       THEN corpus_job' = [corpus_job EXCEPT !.pc = "IndexError"]
       ELSE corpus_job' =
                WriteSpeakerMap(corpus_job,
                    SpeakerMap(corpus_job.corpus,
                               [i \in DOMAIN corpus_job.corpus |->
                                   RegexKey(corpus_job, corpus_job.corpus[i])]))
    /\ CorpusIdle

CorpusNext == SegmentCorpusBySpeaker_run \/ SegmentCorpusByRegex_run

SpecCorpus == CorpusInit /\ [][CorpusNext]_vars

\* The key of a segment of the job at hand.
CorpusKey(seg) ==
    IF corpus_job.class = "SegmentCorpusBySpeaker"
    THEN SpeakerKey(seg) ELSE RegexKey(corpus_job, seg)

\* The positions (file, line) at which a full name is listed in the files
\* segments/speaker.<N>, and the map-items of cluster.map.xml that name it.
ListedAt(fullname) ==
    {<<N, j>> \in (DOMAIN corpus_job.segment_dir) \X (1..MaxSegments + 1) :
        /\ j \in DOMAIN corpus_job.segment_dir[N]
        /\ corpus_job.segment_dir[N][j] = fullname}

MapItemsOf(fullname) ==
    {j \in DOMAIN corpus_job.cluster_map_file :
        corpus_job.cluster_map_file[j][1] = fullname}

\* C7: after run, speaker.map lists the distinct keys in sorted order and
\* num_speakers counts them; the files speaker.N are numbered from 1; every
\* segment is listed once, in the file of its key, and has one map-item,
\* whose cluster number is the line of its key in speaker.map; a file lists
\* its segments in corpus order.
C7_SegmentsClusteredBySortedKey ==
    corpus_job.pc = "done" =>
        LET job == corpus_job
            K   == {CorpusKey(job.corpus[i]) : i \in DOMAIN job.corpus}
        IN  /\ Range(job.speaker_map_file) = K
            /\ \A i, j \in DOMAIN job.speaker_map_file :
                   i < j => StrLess(job.speaker_map_file[i], job.speaker_map_file[j])
            /\ job.num_speakers = Cardinality(K)
            /\ DOMAIN job.segment_dir = 1..job.num_speakers
            /\ Len(job.cluster_map_file) = Len(job.corpus)
            /\ \A i \in DOMAIN job.corpus :
                   LET seg == job.corpus[i]
                       N   == CHOOSE n \in DOMAIN job.speaker_map_file :
                                  job.speaker_map_file[n] = CorpusKey(seg)
                   IN  /\ Cardinality(ListedAt(seg.fullname)) = 1
                       /\ \A at \in ListedAt(seg.fullname) : at[1] = N
                       /\ Cardinality(MapItemsOf(seg.fullname)) = 1
                       /\ \A j \in MapItemsOf(seg.fullname) :
                              job.cluster_map_file[j][2] = N
            /\ \A N \in DOMAIN job.segment_dir :
                   LET own == SelectSeq(job.corpus,
                                  LAMBDA seg : CorpusKey(seg) = job.speaker_map_file[N])
                   IN  job.segment_dir[N] = [i \in DOMAIN own |-> own[i].fullname]

\* Two speakers whose sorted order is not their order in the corpus.
C7_Witness ==
    /\ corpus_job.pc = "done"
    /\ corpus_job.class = "SegmentCorpusBySpeaker"
    /\ corpus_job.num_speakers = 2
    /\ corpus_job.speaker_map_file = <<session3, spk12>>
    /\ corpus_job.cluster_map_file = << <<FullName(2), 1>>, <<FullName(1), 2>> >>

\* The texts of the listed groups of a match, one after the other; a group
\* that did not participate has no text.
RECURSIVE ListedTexts(_, _)
ListedTexts(match, indices) ==
    IF indices = <<>> THEN <<>>
    ELSE LET g == indices[Len(indices)]
             t == IF g = 0 THEN match.group0 ELSE Text(match.groups[g])
         IN  ListedTexts(match, SubSeq(indices, 1, Len(indices) - 1)) \o t

\* The key C8 states for a segment.
C8_Key(job, seg) ==
    LET match == IF job.use_fullpath THEN seg.search_fullname ELSE seg.search_name
    IN  IF IsNone(match) THEN unknown
        ELSE IF match.groups = <<>> THEN match.group0
        ELSE ListedTexts(match, IF IsNone(job.groups_arg) THEN <<1>>
                                ELSE job.groups_arg.items)

\* C8: after a run of the by-regex job, every segment is filed under the key
\* "unknown" if the pattern did not match, the whole match if the pattern
\* has no groups, and else the texts of the configured groups (default: 1)
\* in the listed order; for the groups "spk12" and "session3" that is
\* "spk12" with groups=[1] and "spk12session3" with groups=[1, 2].
C8_RegexKeyOfEverySegment ==
    (corpus_job.pc = "done" /\ corpus_job.class = "SegmentCorpusByRegex") =>
        \A i \in DOMAIN corpus_job.corpus :
            LET seg   == corpus_job.corpus[i]
                match == Search(corpus_job, seg)
                key   == C8_Key(corpus_job, seg)
            IN  /\ \E N \in DOMAIN corpus_job.segment_dir :
                       /\ corpus_job.speaker_map_file[N] = key
                       /\ seg.fullname \in Range(corpus_job.segment_dir[N])
                /\ (/\ ~IsNone(match)
                    /\ match.groups = <<Str(spk12), Str(session3)>>)
                   => /\ corpus_job.groups_arg = List(<<1>>) => key = spk12
                      /\ corpus_job.groups_arg = List(<<1, 2>>)
                             => key = spk12 \o session3

\* A segment that matched with both groups, filed with groups=[2, 1], and
\* one whose first group did not participate.
C8_Witness ==
    /\ corpus_job.pc = "done"
    /\ corpus_job.class = "SegmentCorpusByRegex"
    /\ corpus_job.groups_arg = List(<<2, 1>>)
    /\ Len(corpus_job.corpus) = 2
    /\ Search(corpus_job, corpus_job.corpus[1]).tag = "match"
    /\ Search(corpus_job, corpus_job.corpus[1]).groups = <<Str(spk12), Str(session3)>>
    /\ Search(corpus_job, corpus_job.corpus[2]).tag = "match"
    /\ Search(corpus_job, corpus_job.corpus[2]).groups = <<NoneVal, Str(session3)>>
    /\ corpus_job.speaker_map_file = <<session3, session3 \o spk12>>

-----------------------------------------------------------------------------
(* UpdateSegmentsWithSegmentMap *)

MaxUpdateLines == 3
MaxMapEntries == 2

\* The lines of a segment file and the entries <<key, value>> of a segment
\* map, with and without white space around the identifiers.
UpdateLines ==
    { <<"a", "\n">>, <<" ", "a", " ", "\n">>, <<"b", "\n">>, <<"b">>, <<"\n">> }

MapEntries ==
    { <<"a">>, <<"b">> } \X { <<"a">>, <<"b">>, <<" ", "x", " ">> }

\* The files of at most n lines: every line but the last ends with a newline.
UpdateFiles(n) ==
    {f \in SeqsUpTo(UpdateLines, n) :
        \A i \in 1..(Len(f) - 1) : f[i][Len(f[i])] = "\n"}

\* segment_map_dict: a later entry of the map replaces an earlier one with
\* the same key.
RECURSIVE SegmentMapDict(_)
SegmentMapDict(map_entries) ==
    IF map_entries = <<>> THEN <<>>
    ELSE LET front == SegmentMapDict(SubSeq(map_entries, 1, Len(map_entries) - 1))
             item  == map_entries[Len(map_entries)]
         IN  [k \in DOMAIN front \cup {item[1]} |->
                 IF k = item[1] THEN item[2] ELSE front[k]]

\* The loop with a lookup that falls back to the identifier itself.
RECURSIVE UpdateLoop_pass_through(_, _, _)
UpdateLoop_pass_through(segment_map_dict, in_segments, out_segments) ==
    IF in_segments = <<>> THEN [pc |-> "done", out |-> out_segments]
    ELSE LET in_segment == Head(in_segments)
             out_segment == IF strip(in_segment) \in DOMAIN segment_map_dict
                            THEN strip(segment_map_dict[strip(in_segment)])
                            ELSE strip(in_segment)
         IN  UpdateLoop_pass_through(segment_map_dict, Tail(in_segments),
                                     Append(out_segments, out_segment \o <<"\n">>))

\* The loop with every output line put in front of the lines written so far.
RECURSIVE UpdateLoop_prepends(_, _, _)
UpdateLoop_prepends(segment_map_dict, in_segments, out_segments) ==
    IF in_segments = <<>> THEN [pc |-> "done", out |-> out_segments]
    ELSE LET in_segment == Head(in_segments)
         IN  IF strip(in_segment) \notin DOMAIN segment_map_dict
             THEN [pc |-> "KeyError", out |-> out_segments]
             ELSE UpdateLoop_prepends(segment_map_dict, Tail(in_segments),
                      <<strip(segment_map_dict[strip(in_segment)]) \o <<"\n">>>>
                          \o out_segments)

\* The loop of run over the lines that are left: a line whose stripped text
\* is no key of the map raises KeyError, after the lines before it were
\* written to the open output file.
RECURSIVE UpdateLoop(_, _, _)
UpdateLoop(segment_map_dict, in_segments, out_segments) ==
    IF in_segments = <<>> THEN [pc |-> "done", out |-> out_segments]
    ELSE LET in_segment == Head(in_segments)
         IN  IF strip(in_segment) \notin DOMAIN segment_map_dict
             THEN [pc |-> "KeyError", out |-> out_segments]
             ELSE UpdateLoop(segment_map_dict, Tail(in_segments),
                      Append(out_segments,
                             strip(segment_map_dict[strip(in_segment)]) \o <<"\n">>))

UpdateInit ==
    /\ update_job \in
           [pc : {"constructed"},
            segment_file : UpdateFiles(MaxUpdateLines),
            segment_map : SeqsUpTo(MapEntries, MaxMapEntries),
            out_exists : {FALSE}, out : {<<>>}]
    /\ shuffle_job = Idle /\ split_job = Idle /\ corpus_job = Idle
    /\ rc = Idle /\ train_job = Idle
    /\ sort_job = Idle

\* run: load the map, open both files (which creates the output file) and
\* rewrite line after line; the files are closed when the loop ends or raises.
UpdateSegmentsWithSegmentMap_run ==
    /\ update_job.pc = "constructed"
    /\ LET res == UpdateLoop(SegmentMapDict(update_job.segment_map),
                             update_job.segment_file, <<>>)
       IN  update_job' = [update_job EXCEPT
               !.pc = res.pc, !.out_exists = TRUE, !.out = res.out]
    /\ UNCHANGED <<sort_job, shuffle_job, split_job, corpus_job, rc, train_job>>

UpdateNext == UpdateSegmentsWithSegmentMap_run

SpecUpdate == UpdateInit /\ [][UpdateNext]_vars

\* The identifier of a line and the value the map gives an identifier (the
\* value of the last entry with that key).
Identifier(line) == strip(line)

Mapped(id) ==
    LET hits == {i \in DOMAIN update_job.segment_map :
                    update_job.segment_map[i][1] = id}
        last == CHOOSE i \in hits : \A j \in hits : j <= i
    IN  update_job.segment_map[last][2]

MapKeys == {update_job.segment_map[i][1] : i \in DOMAIN update_job.segment_map}

\* C9: after run, if the identifier of some input line is no key of the
\* map, the run has failed with KeyError; and every line of the output is
\* the stripped map value of the input line at its position, so that no
\* identifier is written unmapped.
C9_MissingIdentifierFails ==
    update_job.pc # "constructed" =>
        /\ (\E i \in DOMAIN update_job.segment_file :
               Identifier(update_job.segment_file[i]) \notin MapKeys)
           => update_job.pc = "KeyError"
        /\ Len(update_job.out) <= Len(update_job.segment_file)
        /\ \A i \in DOMAIN update_job.out :
               /\ Identifier(update_job.segment_file[i]) \in MapKeys
               /\ update_job.out[i] =
                      strip(Mapped(Identifier(update_job.segment_file[i]))) \o <<"\n">>

\* An identifier that is missing from the map, after one that is mapped to
\* another name.
C9_Witness ==
    /\ update_job.pc = "KeyError"
    /\ update_job.segment_file = << <<" ", "a", " ", "\n">>, <<"b", "\n">> >>
    /\ update_job.segment_map = << <<<<"a">>, <<" ", "x", " ">>>> >>

\* C10 as stated: a run that fails on a missing identifier has produced no
\* output, whatever the position of the failing line.
C10_NoPartialOutput ==
    update_job.pc = "KeyError" => update_job.out = <<>>

\* C11: with a map whose every entry has its key as its value and that
\* holds the identifier of every input line, run completes and the output
\* has the lines of the input, one for one and in the same order, each
\* equal to its input line once both are stripped.
C11_IdentityMapRoundTrip ==
    (/\ update_job.pc # "constructed"
     /\ \A i \in DOMAIN update_job.segment_map :
            update_job.segment_map[i][1] = update_job.segment_map[i][2]
     /\ \A i \in DOMAIN update_job.segment_file :
            Identifier(update_job.segment_file[i]) \in MapKeys)
    => /\ update_job.pc = "done"
       /\ Len(update_job.out) = Len(update_job.segment_file)
       /\ \A i \in DOMAIN update_job.out :
              strip(update_job.out[i]) = strip(update_job.segment_file[i])

\* An identity map of two entries and a file of three lines naming both,
\* one with white space around it and the last without a newline.
C11_Witness ==
    /\ update_job.pc = "done"
    /\ update_job.segment_map = << <<<<"a">>, <<"a">>>>, <<<<"b">>, <<"b">>>> >>
    /\ update_job.segment_file =
           << <<" ", "a", " ", "\n">>, <<"b", "\n">>, <<"b">> >>
    /\ update_job.out = << <<"a", "\n">>, <<"b", "\n">>, <<"b", "\n">> >>

-----------------------------------------------------------------------------
(* SortSegmentsByLengthAndShuffle *)

MaxSortSegments == 2

\* The end of a segment: seconds, or float("inf") without end time.
Seconds(n) == [tag |-> "float", v |-> n]
Inf == [tag |-> "inf"]
isinf(x) == x.tag = "inf"

\* text[-n:]
LastChars(text, n) ==
    IF Len(text) <= n THEN text ELSE SubSeq(text, Len(text) - n + 1, Len(text))

wav == <<".", "w", "a", "v">>

\* The segments of a corpus: full name, start and end in seconds, the
\* recording's audio file and, for a wave file, frames / frame rate.
SortSegments ==
    [fullname : {FullName(1), FullName(2)}, start : {0},
     end : {Seconds(1), Seconds(2), Seconds(800)},
     audio : {<<"x">> \o wav}, wav_seconds : {1}]
    \cup
    [fullname : {FullName(1), FullName(2)}, start : {0}, end : {Inf},
     audio : {<<"x">> \o wav, <<"x", ".", "f", "l", "a", "c">>}, wav_seconds : {1}]

SortCorpora == SeqsUpTo(SortSegments, MaxSortSegments)

\* The lines of the segment file without their line ends.
SortSegmentFiles ==
    { <<>>, <<FullName(1)>>, <<FullName(1), FullName(2)>>,
      <<FullName(2), FullName(1), FullName(1)>>, <<FullName(1) \o <<" ">>>> }

\* shuffle_seed in 16-bit digits, most significant first: the default
\* 0x3C5EA3E47D4E0077 and a small seed.
default_shuffle_seed == <<15454, 41956, 32078, 119>>
SortSeeds == {default_shuffle_seed, <<0, 0, 0, 1>>}

\* np.random.seed(seed) raises ValueError unless 0 <= seed <= 2**32 - 1.
SeedAccepted(seed) == seed[1] = 0 /\ seed[2] = 0

\* segment_dict of run, a dict in insertion order: for every segment of the
\* corpus that the segment file lists, full name + "\n" -> duration; a
\* segment without end gets the length of its wave file and is left out if
\* the audio file is not named *.wav.  A full name met again keeps its
\* place and takes the new duration.
RECURSIVE segment_dict(_, _)
segment_dict(segments, corpus) ==
    IF corpus = <<>> THEN <<>>
    ELSE LET front   == segment_dict(segments, SubSeq(corpus, 1, Len(corpus) - 1))
             segment == corpus[Len(corpus)]
             key     == segment.fullname \o <<"\n">>
             value   == IF isinf(segment.end) THEN segment.wav_seconds
                        ELSE segment.end.v - segment.start
         IN  IF segment.fullname \notin Range(segments) THEN front
             ELSE IF isinf(segment.end) /\ LastChars(segment.audio, 4) # wav THEN front
             ELSE IF \E i \in DOMAIN front : front[i][1] = key
                  THEN [i \in DOMAIN front |->
                           IF front[i][1] = key THEN <<key, value>> ELSE front[i]]
                  ELSE Append(front, <<key, value>>)

\* np.exp(-strength * duration) is 0.0 beyond this product.
ExpUnderflow == 745

\* np.random.choice(keys, size=len(probs), replace=False, p=probs) raises
\* ValueError if probs does not sum to 1 (as for no key at all, or NaN after
\* a division by 0.0) or has fewer non-zero entries than keys.
ChoiceRaises(shuffle_strength, dict) ==
    \/ dict = <<>>
    \/ \E i \in DOMAIN dict : shuffle_strength * dict[i][2] > ExpUnderflow

SortInit ==
    /\ sort_job \in
           [pc : {"constructed"}, segment_path : SortSegmentFiles,
            corpus : SortCorpora, shuffle_strength : {0, 1},
            shuffle_seed : SortSeeds, new_segments : {NoneVal}]
    /\ shuffle_job = Idle /\ split_job = Idle /\ corpus_job = Idle
    /\ update_job = Idle /\ rc = Idle /\ train_job = Idle

\* run: the sample is drawn before the output file is opened.  With all
\* weights positive the draw is some order of all keys; which one is the
\* random generator's.
SortSegmentsByLengthAndShuffle_run ==
    /\ sort_job.pc = "constructed"
    /\ LET dict == segment_dict(sort_job.segment_path, sort_job.corpus)
       IN  IF ~SeedAccepted(sort_job.shuffle_seed)
              \/ ChoiceRaises(sort_job.shuffle_strength, dict)
           THEN sort_job' = [sort_job EXCEPT !.pc = "ValueError"]
           ELSE \E seglist \in Orderings({dict[i][1] : i \in DOMAIN dict}) :
                   sort_job' = [sort_job EXCEPT
                       !.pc = "done", !.new_segments = List(seglist)]
    /\ UNCHANGED <<shuffle_job, split_job, corpus_job, update_job, rc,
                   train_job>>

SortNext == SortSegmentsByLengthAndShuffle_run

SpecSort == SortInit /\ [][SortNext]_vars

\* The segments of the corpus that the segment file lists, and those of
\* them that have a duration: an end time, or a wave file to measure.
SortListed ==
    {i \in DOMAIN sort_job.corpus :
        \E j \in DOMAIN sort_job.segment_path :
           sort_job.segment_path[j] = sort_job.corpus[i].fullname}

SortResolvable ==
    {i \in SortListed :
        \/ ~isinf(sort_job.corpus[i].end)
        \/ LastChars(sort_job.corpus[i].audio, 4) = wav}

\* C13 as stated: run writes an output that holds no line twice and holds
\* the full names of exactly the listed segments of the corpus that have a
\* duration; a listed segment without end time and without wave file is
\* left out and nothing is raised.
C13_OutputIsResolvableSegmentsOnce ==
    sort_job.pc # "constructed" =>
        /\ sort_job.pc = "done"
        /\ LET out == sort_job.new_segments.items
           IN  /\ \A i, j \in DOMAIN out : out[i] = out[j] => i = j
               /\ Range(out) = {sort_job.corpus[i].fullname \o <<"\n">>
                                   : i \in SortResolvable}

-----------------------------------------------------------------------------
(* ReturnnConfig and WriteReturnnConfigJob *)

\* Config values: an int, a sisyphus Variable holding a value, a list.
IntVal(n) == [tag |-> "int", v |-> n]
Variable(v) == [tag |-> "Variable", v |-> v]

\* instanciate_vars(o): a Variable becomes its value; the elements of a list
\* and the values of a dict are replaced in place.
RECURSIVE instanciate_vars(_)
instanciate_vars(o) ==
    CASE o.tag = "Variable" -> o.v
      [] o.tag = "list" ->
             List([k \in DOMAIN o.items |-> instanciate_vars(o.items[k])])
      [] o.tag = "tuple" ->
             [tag |-> "tuple",
              items |-> [k \in DOMAIN o.items |-> instanciate_vars(o.items[k])]]
      [] o.tag = "dict" ->
             Dict([k \in DOMAIN o.items |->
                      <<o.items[k][1], instanciate_vars(o.items[k][2])>>])
      [] OTHER -> o

\* An instance of a class that defines no __repr__ and has no JSON encoding,
\* and a member of an enum.IntEnum: its repr is <E.A: 1>, json encodes it
\* as the int.
Object == [tag |-> "object"]
IntEnum(n) == [tag |-> "IntEnum", v |-> n]

\* A config or post_config dict: a function from its keys to their values.
ConfigKeys == { <<"a">>, <<"b">> }
ConfigValues ==
    { IntVal(1), IntVal(2), Variable(IntVal(3)), List(<<Variable(IntVal(3)), IntVal(1)>>),
      Object, IntEnum(1) }
Configs(K, V) == UNION {[D -> V] : D \in SUBSET K}

\* dict.update: the entries of other replace or extend those of d.
update(d, other) ==
    [k \in DOMAIN d \cup DOMAIN other |-> IF k \in DOMAIN other THEN other[k] ELSE d[k]]

\* ReturnnConfig.__init__.  config0 records the config argument as it was
\* given; h is the last value hash() returned and result what the last
\* serialize() returned or raised.
ReturnnConfig(config, post_config, python_prolog, python_prolog_hash, extra_python_code, extra_python_hash) ==
    [pc                 |-> "constructed",
     config             |-> config,
     post_config        |-> IF ~IsNone(post_config) THEN post_config.d ELSE <<>>,
     python_prolog      |-> python_prolog,
     python_prolog_hash |-> IF ~IsNone(python_prolog_hash)
                            THEN python_prolog_hash ELSE python_prolog,
     extra_python_code  |-> extra_python_code,
     extra_python_hash  |-> IF ~IsNone(extra_python_hash)
                            THEN extra_python_hash ELSE extra_python_code,
     config0            |-> config,
     returnn_config_file |-> NoneVal,
     h                  |-> NoneVal,
     result             |-> NoneVal]

\* The state of the object after serialize(): config = self.config is the
\* object's own dict, so config.update(self.post_config) and
\* instanciate_vars(config) change self.config; a list that is a value of
\* post_config is the same object in both dicts and is changed in both.
serialize(self) ==
    LET config == update(self.config, self.post_config)
    IN  [self EXCEPT
            !.config = [k \in DOMAIN config |-> instanciate_vars(config[k])],
            !.post_config = [k \in DOMAIN self.post_config |->
                                IF self.post_config[k].tag \in {"list", "dict"}
                                THEN instanciate_vars(self.post_config[k])
                                ELSE self.post_config[k]]]

\* sep.join(texts)
RECURSIVE Join(_, _)
Join(texts, sep) ==
    IF texts = <<>> THEN <<>>
    ELSE IF Len(texts) = 1 THEN texts[1]
    ELSE texts[1] \o sep \o Join(Tail(texts), sep)

\* repr of an int from 0 to 9.
Digits(n) == <<CodePoints[5 + n]>>

\* pprint.isreadable(v): builtin scalars are; a list is if its elements
\* are; any other object is unless its repr starts with "<".
RECURSIVE isreadable(_)
isreadable(v) ==
    CASE v.tag = "int" -> TRUE
      [] v.tag = "list" -> \A k \in DOMAIN v.items : isreadable(v.items[k])
      [] OTHER -> FALSE

\* pp.pformat(v) of a readable value that fits the line.
RECURSIVE pformat(_)
pformat(v) ==
    CASE v.tag = "int" -> Digits(v.v)
      [] v.tag = "list" ->
             <<"[">> \o Join([k \in DOMAIN v.items |-> pformat(v.items[k])],
                            <<",", " ">>) \o <<"]">>

\* Whether json.dumps has an encoding for v; it raises TypeError if not.
RECURSIVE JsonSerializable(_)
JsonSerializable(v) ==
    CASE v.tag \in {"int", "IntEnum"} -> TRUE
      [] v.tag = "list" -> \A k \in DOMAIN v.items : JsonSerializable(v.items[k])
      [] OTHER -> FALSE

\* json.dumps(v) of a value that has an encoding.
RECURSIVE dumps(_)
dumps(v) ==
    CASE v.tag \in {"int", "IntEnum"} -> Digits(v.v)
      [] v.tag = "list" ->
             <<"[">> \o Join([k \in DOMAIN v.items |-> dumps(v.items[k])],
                            <<",", " ">>) \o <<"]">>

\* json.dumps(unreadable_data), the dict holding the keys ks in this order.
dumps_dict(unreadable_data, ks) ==
    <<"{">> \o Join([i \in DOMAIN ks |->
                        <<"\"">> \o ks[i] \o <<"\"", ":", " ">>
                            \o dumps(unreadable_data[ks[i]])],
                   <<",", " ">>) \o <<"}">>

\* text.replace('"', '\\"')
RECURSIVE EscapeQuotes(_)
EscapeQuotes(text) ==
    IF text = <<>> THEN <<>>
    ELSE (IF Head(text) = "\"" THEN <<"\\", "\"">> ELSE <<Head(text)>>)
         \o EscapeQuotes(Tail(text))

\* __parse_python(code) for None and for a str.
parse_python(code) == IF IsNone(code) THEN <<>> ELSE code.s

\* config_lines of serialize for the merged config with its Variables
\* replaced: the items in sorted key order, a readable value as
\* "key = literal", the others collected in unreadable_data, which json
\* encodes into one line at the end.
ConfigLines(config) ==
    LET ordered    == sorted(DOMAIN config)
        readable   == SelectSeq(ordered, LAMBDA k : isreadable(config[k]))
        unreadable == SelectSeq(ordered, LAMBDA k : ~isreadable(config[k]))
        direct     == [i \in DOMAIN readable |->
                          readable[i] \o <<" ", "=", " ">>
                              \o pformat(config[readable[i]])]
    IN  IF unreadable = <<>>
        THEN [tag |-> "lines",
              lines |-> direct \o << <<"c","o","n","f","i","g"," ","=", " ", "{", "}">> >>]
        ELSE IF \E i \in DOMAIN unreadable : ~JsonSerializable(config[unreadable[i]])
        THEN [tag |-> "TypeError"]
        ELSE [tag |-> "lines",
              lines |-> direct
                  \o << <<"i","m","p","o","r","t"," ","j","s","o","n">>,
                        <<"c","o","n","f","i","g"," ","=", " ",
                          "j","s","o","n",".","l","o","a","d","s","(","\"">>
                        \o EscapeQuotes(dumps_dict(config, unreadable))
                        \o <<"\"", ")">> >>]

\* What serialize() returns for the object as serialize has changed it:
\* the parts the template joins, or the TypeError of json.dumps.
SerializeResult(self) ==
    LET body == ConfigLines(self.config)
    IN  IF body.tag = "TypeError" THEN body
        ELSE [tag |-> "str",
              PROLOG |-> parse_python(self.python_prolog),
              REGULAR_CONFIG |-> body.lines,
              EPILOG |-> parse_python(self.extra_python_code)]

\* ReturnnConfig.hash()
ReturnnConfigHash(self) ==
    IF ~IsNone(self.python_prolog_hash)
    THEN [tag |-> "dict", returnn_config |-> self.config,
          extra_python_hash |-> self.extra_python_hash,
          python_prolog_hash |-> self.python_prolog_hash]
    ELSE [tag |-> "dict", returnn_config |-> self.config,
          extra_python_hash |-> self.extra_python_hash]

Prologs == {NoneVal, Str("import a"), Str("import b")}
PrologHashes == {NoneVal, Str("prolog-v1")}
ExtraCodes == {NoneVal, Str(""), Str("def f(): pass")}
ExtraHashes == {NoneVal, Str("extra-v1")}

ConfigInit ==
    /\ rc \in {ReturnnConfig(c, pc, prolog, NoneVal, Str(""), eh) :
                  <<c, pc, prolog, eh>> \in
                      Configs(ConfigKeys, ConfigValues)
                      \X ({NoneVal} \cup {[tag |-> "dict", d |-> d] :
                                            d \in Configs(ConfigKeys, ConfigValues)})
                      \X {NoneVal, Str("import a")}
                      \X ExtraHashes}
    /\ shuffle_job = Idle /\ split_job = Idle /\ corpus_job = Idle
    /\ update_job = Idle /\ train_job = Idle
    /\ sort_job = Idle

ConfigIdle == UNCHANGED <<sort_job, shuffle_job, split_job, corpus_job, update_job, train_job>>

ReturnnConfig_serialize ==
    /\ rc.pc = "constructed"
    /\ rc' = [serialize(rc) EXCEPT !.result = SerializeResult(serialize(rc))]
    /\ ConfigIdle

\* WriteReturnnConfigJob.run: returnn_config.write(path) opens the file,
\* serializes and writes the text; the file stays empty if serialize raises.
WriteReturnnConfigJob_run ==
    /\ rc.pc = "constructed"
    /\ rc' = [serialize(rc) EXCEPT
                 !.result = SerializeResult(serialize(rc)),
                 !.returnn_config_file =
                     IF SerializeResult(serialize(rc)).tag = "str"
                     THEN SerializeResult(serialize(rc))
                     ELSE [tag |-> "empty"]]
    /\ ConfigIdle

\* hash(), called directly or by WriteReturnnConfigJob.hash.
ReturnnConfig_hash ==
    /\ rc.pc = "constructed"
    /\ rc' = [rc EXCEPT !.h = ReturnnConfigHash(rc)]
    /\ ConfigIdle

ConfigNext ==
    \/ ReturnnConfig_serialize
    \/ WriteReturnnConfigJob_run
    \/ ReturnnConfig_hash

SpecConfig == ConfigInit /\ [][ConfigNext]_vars

\* C5 as stated: whatever serialize(), write() and hash() calls came before,
\* the value hash() returns holds the regular config entries (as given, or
\* with their Variables replaced by their values) and no key or value of
\* post_config.
C5_HashExcludesPostConfig ==
    ~IsNone(rc.h) =>
        /\ DOMAIN rc.h.returnn_config = DOMAIN rc.config0
        /\ \A k \in DOMAIN rc.h.returnn_config :
               /\ k \in DOMAIN rc.config0
               /\ rc.h.returnn_config[k] \in
                      {rc.config0[k], instanciate_vars(rc.config0[k])}

\* The merged configuration serialize() is given: the config entries,
\* overridden by the post_config entries of the same key, Variables replaced.
MergedConfig ==
    LET merged == update(rc.config0, rc.post_config)
    IN  [k \in DOMAIN merged |-> instanciate_vars(merged[k])]

\* C12 as stated: serialize() succeeds on every merged configuration; the
\* body has one line "key = literal" per key whose value has a literal
\* form, in sorted key order, and the keys whose values have none are all
\* in the one JSON-encoded container that follows, also in sorted order.
C12_EveryKeyOnceInSortedOrder ==
    ~IsNone(rc.result) =>
        /\ rc.result.tag = "str"
        /\ LET M       == MergedConfig
               lines   == rc.result.REGULAR_CONFIG
               literal == {k \in DOMAIN M : isreadable(M[k])}
               other   == (DOMAIN M) \ literal
               n       == Cardinality(literal)
           IN  /\ Len(lines) = n + (IF other = {} THEN 1 ELSE 2)
               /\ \A k \in literal :
                      lines[1 + Cardinality({j \in literal : StrLess(j, k)})]
                          = k \o <<" ", "=", " ">> \o pformat(M[k])
               /\ other # {} =>
                      /\ lines[n + 1] = <<"i","m","p","o","r","t"," ","j","s","o","n">>
                      /\ lines[n + 2] =
                             <<"c","o","n","f","i","g"," ","=", " ",
                               "j","s","o","n",".","l","o","a","d","s","(","\"">>
                             \o EscapeQuotes(dumps_dict(M, sorted(other)))
                             \o <<"\"", ")">>

-----------------------------------------------------------------------------
(* ReturnnTrainingJob *)

network == <<"n", "e", "t", "w", "o", "r", "k">>

\* The arguments of the training jobs of the model.
TrainConfigs ==
    {ReturnnConfig(c, NoneVal, prolog, ph, code, eh) :
        <<c, prolog, ph, code, eh>> \in
            [{network} -> {IntVal(1), IntVal(2)}]
            \X Prologs \X PrologHashes \X ExtraCodes \X ExtraHashes}

TrainKwargs ==
    [train_data : {Str("train.v1"), Str("train.v2")},
     dev_data : {Str("dev.v1")},
     returnn_config : TrainConfigs,
     horovod_num_processes : {NoneVal, IntVal(2)},
     returnn_python_exe : {NoneVal},
     returnn_root : {NoneVal}]

\* ReturnnTrainingJob.hash(kwargs): the dict handed to Job.hash.  A
\* ReturnnConfig has no attribute extra_python, which is read when its
\* extra_python_hash is None.
TrainHash(kwargs) ==
    LET returnn_config == kwargs.returnn_config
    IN  IF IsNone(returnn_config.extra_python_hash)
        THEN [tag |-> "AttributeError"]
        ELSE LET d == [tag |-> "dict",
                       returnn_config |-> returnn_config.config,
                       extra_python |-> returnn_config.extra_python_hash,
                       returnn_python_exe |-> kwargs.returnn_python_exe,
                       returnn_root |-> kwargs.returnn_root,
                       train_data |-> kwargs.train_data,
                       dev_data |-> kwargs.dev_data]
             IN  IF ~IsNone(kwargs.horovod_num_processes)
                 THEN [tag |-> "dict",
                       returnn_config |-> d.returnn_config,
                       extra_python |-> d.extra_python,
                       returnn_python_exe |-> d.returnn_python_exe,
                       returnn_root |-> d.returnn_root,
                       train_data |-> d.train_data,
                       dev_data |-> d.dev_data,
                       horovod_num_processes |-> kwargs.horovod_num_processes]
                 ELSE d

TrainInit ==
    /\ train_job \in [pc : {"new"}, kwargs : TrainKwargs, digest : {NoneVal}]
    /\ shuffle_job = Idle /\ split_job = Idle /\ corpus_job = Idle
    /\ update_job = Idle /\ rc = Idle
    /\ sort_job = Idle

\* The framework computes the job's identity from the arguments.
ReturnnTrainingJob_hash ==
    /\ train_job.pc = "new"
    /\ train_job' = [train_job EXCEPT
           !.pc = IF TrainHash(train_job.kwargs).tag = "dict"
                  THEN "hashed" ELSE "AttributeError",
           !.digest = TrainHash(train_job.kwargs)]
    /\ UNCHANGED <<sort_job, shuffle_job, split_job, corpus_job, update_job, rc>>

TrainNext == ReturnnTrainingJob_hash

SpecTrain == TrainInit /\ [][TrainNext]_vars

\* The arguments of a job that differs from the one at hand in its python
\* prolog only: prolog p, no prolog-hash override.
WithProlog(kwargs, p) ==
    [kwargs EXCEPT !.returnn_config.python_prolog = p,
                   !.returnn_config.python_prolog_hash = p]

\* C6 as stated: the digest input holds the prolog identity, so a job
\* without prolog-hash override and a job that differs from it in the python
\* prolog only have different digest inputs.
C6_PrologChangesDigest ==
    (/\ train_job.pc = "hashed"
     /\ train_job.kwargs.returnn_config.python_prolog_hash
            = train_job.kwargs.returnn_config.python_prolog)
    => \A p \in Prologs \ {train_job.kwargs.returnn_config.python_prolog} :
           TrainHash(WithProlog(train_job.kwargs, p)) # train_job.digest

\* C19 as stated: hash never fails for a config the constructor accepts,
\* and the extra-python component of the digest input is extra_python_hash
\* when it was given and the extra python code otherwise.
C19_HashIsTotal ==
    train_job.pc # "new" =>
        /\ train_job.pc = "hashed"
        /\ train_job.digest.tag = "dict"
        /\ train_job.digest.extra_python
               = train_job.kwargs.returnn_config.extra_python_hash

-----------------------------------------------------------------------------
(* ReturnnTrainingJob.path_available *)

\* text.startswith(prefix)
startswith(text, prefix) ==
    Len(text) >= Len(prefix) /\ SubSeq(text, 1, Len(prefix)) = prefix

\* text.split("."): the parts between the dots.
RECURSIVE split(_)
split(text) ==
    IF \A i \in DOMAIN text : text[i] # "."
    THEN <<text>>
    ELSE LET d == CHOOSE i \in DOMAIN text :
                     text[i] = "." /\ \A j \in 1..(i - 1) : text[j] # "."
         IN  <<SubSeq(text, 1, d - 1)>> \o split(SubSeq(text, d + 1, Len(text)))

epoch == <<"e", "p", "o", "c", "h">>
pretrain == <<"p", "r", "e", "t", "r", "a", "i", "n">>
meta == <<"m", "e", "t", "a">>
e001 == <<"0", "0", "1">>

\* An output path: its directory and its file name.
OutputPath(directory, file) == [directory |-> directory, file |-> file]

learning_rates == OutputPath("output", <<"l", "e", "a", "r", "n", "i", "n", "g", "_", "r", "a", "t", "e", "s">>)
returnn_config_file == OutputPath("output", <<"r", "e", "t", "u", "r", "n", "n", ".", "c", "o", "n", "f", "i", "g">>)

\* models/epoch.001 and, with use_tensorflow, models/epoch.001.meta
EpochModel(suffix) ==
    OutputPath("output/models", Join(<<epoch, e001>> \o suffix, <<".">>))

\* The files RETURNN writes for a pretrain epoch.
PretrainModel(suffix) ==
    OutputPath("output/models", Join(<<epoch, pretrain, e001>> \o suffix, <<".">>))

\* The output paths sisyphus asks about, and the files that may come to
\* exist while the job runs.
AskedPaths ==
    {learning_rates, returnn_config_file, EpochModel(<<>>), EpochModel(<<meta>>)}

WrittenFiles ==
    AskedPaths \cup {PretrainModel(<<>>), PretrainModel(<<meta>>)}

\* path_available(path) for a job that has finished or not (what
\* Job.path_available returns) and the files that exist.
path_available(finished, exists, path) ==
    IF finished THEN TRUE
    ELSE IF path = learning_rates THEN finished
    ELSE IF path \in exists THEN TRUE
    ELSE IF startswith(path.file, epoch \o <<".">>)
         THEN LET segments == split(path.file)
                  pretrain_file == Join(<<segments[1], pretrain, segments[2]>>, <<".">>)
              IN  OutputPath(path.directory, pretrain_file) \in exists
         ELSE FALSE

AvailInit ==
    /\ train_job = [pc |-> "running", finished |-> FALSE, exists |-> {},
                    call |-> NoneVal]
    /\ shuffle_job = Idle /\ split_job = Idle /\ corpus_job = Idle
    /\ update_job = Idle /\ rc = Idle /\ sort_job = Idle

AvailIdle == UNCHANGED <<shuffle_job, split_job, corpus_job, update_job, rc, sort_job>>

\* The training process or a task of the job writes a file.
FileAppears ==
    /\ ~train_job.finished
    /\ \E f \in WrittenFiles \ train_job.exists :
          train_job' = [train_job EXCEPT !.exists = @ \cup {f}]
    /\ AvailIdle

\* The last task of the job has completed.
JobFinishes ==
    /\ ~train_job.finished
    /\ train_job' = [train_job EXCEPT !.finished = TRUE, !.pc = "finished"]
    /\ AvailIdle

\* sisyphus asks whether an output path is available; call records the
\* question, the state it was asked in and the answer.
ReturnnTrainingJob_path_available ==
    /\ \E path \in AskedPaths :
          train_job' = [train_job EXCEPT !.call =
              [tag |-> "call", path |-> path, finished |-> train_job.finished,
               exists |-> train_job.exists,
               res |-> path_available(train_job.finished, train_job.exists, path)]]
    /\ AvailIdle

AvailNext == FileAppears \/ JobFinishes \/ ReturnnTrainingJob_path_available

SpecAvail == AvailInit /\ [][AvailNext]_vars

\* The pretrain file that corresponds to a file epoch.<x>: epoch.pretrain.<x>
PretrainOf(path) ==
    OutputPath(path.directory,
               epoch \o <<".">> \o pretrain \o <<".">>
                   \o SubSeq(path.file, Len(epoch) + 2, Len(path.file)))

\* C16 as stated: the answer for learning_rates is true only if the job had
\* finished; the answer for any other path is true exactly if the job had
\* finished, the file existed, or the file is named epoch.<x> and the file
\* epoch.pretrain.<x> existed.
C16_AvailableIffFinishedOrExists ==
    ~IsNone(train_job.call) =>
        LET c == train_job.call
        IN  IF c.path = learning_rates
            THEN c.res => c.finished
            ELSE c.res <=> \/ c.finished
                           \/ c.path \in c.exists
                           \/ /\ startswith(c.path.file, epoch \o <<".">>)
                              /\ PretrainOf(c.path) \in c.exists

-----------------------------------------------------------------------------
(* ReturnnTrainingJob.run *)

MaxEpochs == 3

\* The members of range(start, stop, step) for a positive step.
range(start, stop, step) ==
    {e \in start..(stop - 1) : (e - start) % step = 0}

\* self.keep_epochs as __init__ sets it: keep_epochs is None or a collection
\* of epochs [tag |-> "epochs", s |-> ...].
keep_epochs_of(keep_epochs, save_interval, num_epochs) ==
    LET stored_epochs == range(save_interval, num_epochs, save_interval)
                             \cup {num_epochs}
    IN  IF IsNone(keep_epochs) THEN stored_epochs ELSE keep_epochs.s

\* The job after construction, as far as run() reads it, with the files
\* around it: produced are the entries the training process has written
\* into the model directory so far, model_dir the entries that are there,
\* lrf whether the learning rate file of the process exists, linked whether
\* the output learning_rates has been linked, todo the entries the clean-up
\* loop has yet to visit.
RunJobs ==
    {[pc |-> "constructed", num_epochs |-> n, save_interval |-> i,
      keep_epochs_arg |-> k, keep_epochs |-> keep_epochs_of(k, i, n),
      produced |-> {}, model_dir |-> {}, lrf |-> FALSE, linked |-> FALSE,
      returncode |-> 0, todo |-> {}] :
        n \in 1..MaxEpochs, i \in 1..2,
        k \in {NoneVal} \cup {[tag |-> "epochs", s |-> S] :
                                  S \in {{}} \cup {{e} : e \in 1..MaxEpochs}}}

\* Whether int(text) accepts a str of the model, and its value then.
IsInt(text) ==
    text # <<>> /\ \A i \in DOMAIN text : text[i] \in {"0", "1", "2", "3", "4", "5", "6", "7", "8", "9"}

RECURSIVE IntOf(_)
IntOf(text) ==
    IF text = <<>> THEN 0
    ELSE 10 * IntOf(SubSeq(text, 1, Len(text) - 1))
             + (ord(text[Len(text)]) - ord("0"))

\* An os.DirEntry of the model directory.
DirEntry(name, is_file) == [name |-> name, is_file |-> is_file]

e002 == <<"0", "0", "2">>
checkpoint == <<"c", "h", "e", "c", "k", "p", "o", "i", "n", "t">>

\* What the training process may leave in the model directory: model files
\* of epochs and pretrain epochs, with or without suffix, a file of another
\* name, a file epoch.best and a directory epoch.003.
TrainingEntries ==
    {DirEntry(Join(<<epoch, e001>>, <<".">>), TRUE),
     DirEntry(Join(<<epoch, e002>>, <<".">>), TRUE),
     DirEntry(Join(<<epoch, pretrain, e001>>, <<".">>), TRUE),
     DirEntry(Join(<<epoch, e002, meta>>, <<".">>), TRUE),
     DirEntry(checkpoint, TRUE),
     DirEntry(Join(<<epoch, <<"b", "e", "s", "t">> >>, <<".">>), TRUE),
     DirEntry(Join(<<epoch, <<"0", "0", "3">> >>, <<".">>), FALSE)}

\* One pass of the clean-up loop over the entry e: "skip" when the entry is
\* left alone, "unlink" when it is removed, or the exception raised.
cleanup_keeps_pretrain(e, keep_epochs) ==
    IF ~(e.is_file /\ startswith(e.name, epoch \o <<".">>)) THEN "skip"
    ELSE LET s == split(e.name)
             idx == IF s[2] = pretrain THEN 3 ELSE 2
         IN  IF Len(s) < idx THEN "IndexError"
             ELSE IF ~IsInt(s[idx]) THEN "ValueError"
             ELSE IF idx = 2 /\ IntOf(s[idx]) \notin keep_epochs THEN "unlink"
             ELSE "skip"

cleanup(e, keep_epochs) ==
    IF ~(e.is_file /\ startswith(e.name, epoch \o <<".">>)) THEN "skip"
    ELSE LET s == split(e.name)
             idx == IF s[2] = pretrain THEN 3 ELSE 2
         IN  IF Len(s) < idx THEN "IndexError"
             ELSE IF ~IsInt(s[idx]) THEN "ValueError"
             ELSE IF IntOf(s[idx]) \notin keep_epochs THEN "unlink"
             ELSE "skip"

RunInit ==
    /\ train_job \in RunJobs
    /\ shuffle_job = Idle /\ split_job = Idle /\ corpus_job = Idle
    /\ update_job = Idle /\ rc = Idle /\ sort_job = Idle

RunIdle == UNCHANGED <<shuffle_job, split_job, corpus_job, update_job, rc, sort_job>>

\* run() is entered: sp.check_call starts the training process and waits
\* for it.  The task is resumable, so run() is entered again after it
\* failed or was interrupted, with the files as they are.
ReturnnTrainingJob_run ==
    /\ train_job.pc \in {"constructed", "exited", "cleanup", "CalledProcessError",
                         "FileNotFoundError", "ValueError", "IndexError"}
    /\ train_job' = [train_job EXCEPT !.pc = "training", !.todo = {}]
    /\ RunIdle

\* While run() waits, the training process writes an entry into the model
\* directory or writes its learning rate file.
TrainingWrites ==
    /\ train_job.pc = "training"
    /\ \/ \E e \in TrainingEntries \ train_job.model_dir :
             train_job' = [train_job EXCEPT !.model_dir = @ \cup {e},
                                            !.produced = @ \cup {e}]
       \/ /\ ~train_job.lrf
          /\ train_job' = [train_job EXCEPT !.lrf = TRUE]
    /\ RunIdle

\* The training process exits.
TrainingExits ==
    /\ train_job.pc = "training"
    /\ \E returncode \in {0, 1} :
          train_job' = [train_job EXCEPT !.pc = "exited", !.returncode = returncode]
    /\ RunIdle

\* check_call returns or raises on the exit code; the learning rate file
\* is linked to the output; os.scandir opens the model directory.
ReturnnTrainingJob_run_relink ==
    /\ train_job.pc = "exited"
    /\ train_job' =
           IF train_job.returncode # 0
           THEN [train_job EXCEPT !.pc = "CalledProcessError"]
           ELSE IF ~train_job.lrf
           THEN [train_job EXCEPT !.pc = "FileNotFoundError", !.linked = FALSE]
           ELSE [train_job EXCEPT !.pc = "cleanup", !.linked = TRUE,
                                  !.todo = train_job.model_dir]
    /\ RunIdle

\* One pass of the clean-up loop, over an entry in the order os.scandir
\* yields, or the end of the loop and of run().
ReturnnTrainingJob_run_cleanup ==
    /\ train_job.pc = "cleanup"
    /\ IF train_job.todo = {}
       THEN train_job' = [train_job EXCEPT !.pc = "done"]
       ELSE \E e \in train_job.todo :
               LET outcome == cleanup(e, train_job.keep_epochs)
               IN  train_job' =
                       IF outcome = "skip"
                       THEN [train_job EXCEPT !.todo = @ \ {e}]
                       ELSE IF outcome = "unlink"
                       THEN [train_job EXCEPT !.todo = @ \ {e}, !.model_dir = @ \ {e}]
                       ELSE [train_job EXCEPT !.pc = outcome]
    /\ RunIdle

RunNext ==
    \/ ReturnnTrainingJob_run
    \/ TrainingWrites
    \/ TrainingExits
    \/ ReturnnTrainingJob_run_relink
    \/ ReturnnTrainingJob_run_cleanup

SpecRun == RunInit /\ [][RunNext]_vars

\* The epoch number in a file name epoch.<e>... or epoch.pretrain.<e>...:
\* the text between the prefix and the next dot.
EpochText(name) ==
    LET rest == SubSeq(name, Len(epoch) + 2, Len(name))
        number == IF startswith(rest, pretrain \o <<".">>)
                  THEN SubSeq(rest, Len(pretrain) + 2, Len(rest))
                  ELSE rest
    IN  split(number)[1]

IsEpochFile(e) ==
    e.is_file /\ startswith(e.name, epoch \o <<".">>) /\ IsInt(EpochText(e.name))

\* The epochs the job keeps: keep_epochs when given, else every multiple of
\* save_interval below num_epochs and num_epochs itself.
KeptEpochs(job) ==
    IF IsNone(job.keep_epochs_arg)
    THEN {e \in 1..job.num_epochs :
              e = job.num_epochs \/ (e < job.num_epochs /\ e % job.save_interval = 0)}
    ELSE job.keep_epochs_arg.s

\* C17: once run() has completed, the model directory holds no epoch file
\* or pretrain epoch file of an epoch outside keep_epochs; every such file
\* of an epoch in keep_epochs that training produced is still there; and
\* no entry whose name does not start with "epoch." was removed.
C17_CleanupKeepsExactlyKeepEpochs ==
    train_job.pc = "done" =>
        /\ train_job.model_dir \subseteq train_job.produced
        /\ \A e \in train_job.model_dir :
              IsEpochFile(e) => IntOf(EpochText(e.name)) \in KeptEpochs(train_job)
        /\ \A e \in train_job.produced :
              (IsEpochFile(e) /\ IntOf(EpochText(e.name)) \in KeptEpochs(train_job))
                  => e \in train_job.model_dir
        /\ \A e \in train_job.produced :
              ~startswith(e.name, epoch \o <<".">>) => e \in train_job.model_dir

\* A job with num_epochs 3 and save_interval 2 keeps epochs 2
\* and 3 by default: epoch.001 and epoch.pretrain.001 were removed,
\* epoch.002, epoch.002.meta and checkpoint are still there.
C17_Witness ==
    /\ train_job.pc = "done"
    /\ IsNone(train_job.keep_epochs_arg)
    /\ train_job.num_epochs = 3 /\ train_job.save_interval = 2
    /\ train_job.produced =
           {DirEntry(Join(<<epoch, e001>>, <<".">>), TRUE),
            DirEntry(Join(<<epoch, e002>>, <<".">>), TRUE),
            DirEntry(Join(<<epoch, pretrain, e001>>, <<".">>), TRUE),
            DirEntry(Join(<<epoch, e002, meta>>, <<".">>), TRUE),
            DirEntry(checkpoint, TRUE)}
    /\ train_job.model_dir =
           {DirEntry(Join(<<epoch, e002>>, <<".">>), TRUE),
            DirEntry(Join(<<epoch, e002, meta>>, <<".">>), TRUE),
            DirEntry(checkpoint, TRUE)}

-----------------------------------------------------------------------------
(* ReturnnTrainingJob.__init__ and create_files *)

num_outputs == <<"n", "u", "m", "_", "o", "u", "t", "p", "u", "t", "s">>
classes == <<"c", "l", "a", "s", "s", "e", "s">>
model == <<"m", "o", "d", "e", "l">>

\* {**a, **b} for two dicts: the items of a, with the value b has where b
\* has the key, then the items of b under new keys.
merge(a, b) ==
    Dict([i \in DOMAIN a.items |->
              IF a.items[i][1] \in keys(b)
              THEN <<a.items[i][1], get(b, a.items[i][1])>> ELSE a.items[i]]
         \o SelectSeq(b.items, LAMBDA item : item[1] \notin keys(a)))

\* d[k] = v for a dict d.
setitem(d, k, v) ==
    IF k \in keys(d)
    THEN Dict([i \in DOMAIN d.items |->
                   IF d.items[i][1] = k THEN <<k, v>> ELSE d.items[i]])
    ELSE Dict(Append(d.items, <<k, v>>))

\* create_returnn_config: the result is a deep copy of returnn_config whose
\* config and post_config are new dicts; config["train"] and config["dev"]
\* are train_data and dev_data themselves when returnn_config.config has no
\* such key, and else a new dict that holds the values of train_data or
\* dev_data.
create_returnn_config(train_data, dev_data, returnn_config, log_verbosity, device, num_epochs, save_interval, horovod_num_processes) ==
    IF device \notin {Str("gpu"), Str("cpu")} \/ network \notin DOMAIN returnn_config.config
    THEN [pc |-> "AssertionError"]
    ELSE
    LET defaults ==
            (<<"t", "a", "s", "k">> :> Str("train"))
            @@ (<<"t", "a", "r", "g", "e", "t">> :> Str("classes"))
            @@ (<<"l", "e", "a", "r", "n", "i", "n", "g", "_", "r", "a", "t", "e", "_", "f", "i", "l", "e">>
                    :> Str("learning_rates"))
        post_defaults ==
            (<<"d", "e", "v", "i", "c", "e">> :> device)
            @@ (<<"l", "o", "g">> :> List(<<Str("./returnn.log")>>))
            @@ (<<"l", "o", "g", "_", "v", "e", "r", "b", "o", "s", "i", "t", "y">> :> log_verbosity)
            @@ (<<"n", "u", "m", "_", "e", "p", "o", "c", "h", "s">> :> num_epochs)
            @@ (<<"s", "a", "v", "e", "_", "i", "n", "t", "e", "r", "v", "a", "l">> :> save_interval)
            @@ (<<"m", "u", "l", "t", "i", "p", "r", "o", "c", "e", "s", "s", "i", "n", "g">>
                    :> [tag |-> "bool", v |-> TRUE])
        horovod ==
            IF ~IsNone(horovod_num_processes)
            THEN (<<"u", "s", "e", "_", "h", "o", "r", "o", "v", "o", "d">>
                      :> [tag |-> "bool", v |-> TRUE]) @@ defaults
            ELSE defaults
        config == update(horovod, returnn_config.config)
        post_config == update(post_defaults, returnn_config.post_config)
        train_value == IF train \in DOMAIN config
                       THEN merge(config[train], train_data) ELSE train_data
        dev_value == IF dev \in DOMAIN config
                     THEN merge(config[dev], dev_data) ELSE dev_data
    IN  [returnn_config EXCEPT
            !.config = update(config, (train :> train_value) @@ (dev :> dev_value)),
            !.post_config = post_config]

\* What the caller passes.  A value of train_data or dev_data may be a
\* sisyphus Variable or a list that holds one.
DataValues == {IntVal(1), Variable(IntVal(3)), List(<<Variable(IntVal(3)), IntVal(1)>>)}

CallerConfigs ==
    {c \in Configs({network, train, dev, num_outputs},
                   {IntVal(1), Dict(<< <<(<<"a">>), IntVal(2)>> >>)}) :
        /\ \A k \in DOMAIN c \cap {train, dev, num_outputs} : c[k].tag = "dict"
        /\ network \in DOMAIN c => c[network].tag = "int"}

CallerPostConfigs ==
    {NoneVal} \cup
    {[tag |-> "given", d |-> d] :
        d \in Configs({<<"x">>, train}, {List(<<Variable(IntVal(3))>>)})}

CreateKwargs ==
    [train_data     : Dicts({<<"a">>, <<"p">>}, DataValues, 1),
     dev_data       : Dicts({<<"q">>}, DataValues, 1),
     returnn_config : {ReturnnConfig(c, p, NoneVal, NoneVal, Str(""), NoneVal) :
                           c \in CallerConfigs, p \in CallerPostConfigs},
     num_classes    : {NoneVal, IntVal(5)},
     horovod_num_processes : {NoneVal, IntVal(2)}]

\* The mappings of the caller as the caller can observe them.
CallerView(kwargs) ==
    [config |-> kwargs.returnn_config.config,
     post_config |-> kwargs.returnn_config.post_config,
     train_data |-> kwargs.train_data,
     dev_data |-> kwargs.dev_data]

\* kwargs are the objects of the caller; before is what they held when the
\* job was constructed; returnn_config is the job's self.returnn_config.
CreateInit ==
    /\ \E kwargs \in CreateKwargs :
          train_job = [pc |-> "new", kwargs |-> kwargs, before |-> CallerView(kwargs),
                       returnn_config |-> NoneVal]
    /\ shuffle_job = Idle /\ split_job = Idle /\ corpus_job = Idle
    /\ update_job = Idle /\ rc = Idle /\ sort_job = Idle

CreateIdle == UNCHANGED <<shuffle_job, split_job, corpus_job, update_job, rc, sort_job>>

\* __init__ with the defaults log_verbosity=3, device="gpu", num_epochs=1,
\* save_interval=1: create_returnn_config, then post_config["model"].
ReturnnTrainingJob_init ==
    /\ train_job.pc = "new"
    /\ LET k == train_job.kwargs
           res == create_returnn_config(k.train_data, k.dev_data, k.returnn_config,
                      IntVal(3), Str("gpu"), IntVal(1), IntVal(1), k.horovod_num_processes)
       IN  IF res.pc = "AssertionError"
           THEN train_job' = [train_job EXCEPT !.pc = "AssertionError"]
           ELSE train_job' = [train_job EXCEPT
                    !.pc = "constructed",
                    !.returnn_config =
                        [res EXCEPT !.post_config =
                            update(@, model :> Str("output/models/epoch"))]]
    /\ CreateIdle

\* The state of a dict of the caller after instanciate_vars has walked a
\* config that holds the dict itself (shared) or a dict with its values:
\* the values of the dict itself are replaced, a list or dict among the
\* values is the same object in both and is changed in place.
walked(data, shared) ==
    IF shared THEN instanciate_vars(data)
    ELSE Dict([i \in DOMAIN data.items |->
                  IF data.items[i][2].tag \in {"list", "dict"}
                  THEN <<data.items[i][1], instanciate_vars(data.items[i][2])>>
                  ELSE data.items[i]])

\* create_files: num_outputs["classes"] is set in the job's config, then
\* config.write serializes it.  serialize puts the post_config entries over
\* those of config before it walks config, so the train or dev entry it
\* walks is the one of post_config when there is one.
ReturnnTrainingJob_create_files ==
    /\ train_job.pc = "constructed"
    /\ LET k == train_job.kwargs
           config == train_job.returnn_config
           injected ==
               IF IsNone(k.num_classes) THEN config
               ELSE LET outputs == IF num_outputs \in DOMAIN config.config
                                   THEN config.config[num_outputs] ELSE Dict(<<>>)
                    IN  [config EXCEPT !.config =
                            update(@, num_outputs :>
                                   setitem(outputs, classes, List(<<k.num_classes, IntVal(1)>>)))]
           reached(key) == key \notin DOMAIN config.post_config
           shared(key) == key \notin DOMAIN k.returnn_config.config
       IN  train_job' = [train_job EXCEPT
               !.pc = "files",
               !.returnn_config = serialize(injected),
               !.kwargs.train_data =
                   IF reached(train) THEN walked(@, shared(train)) ELSE @,
               !.kwargs.dev_data =
                   IF reached(dev) THEN walked(@, shared(dev)) ELSE @]
    /\ CreateIdle

CreateNext == ReturnnTrainingJob_init \/ ReturnnTrainingJob_create_files

SpecCreate == CreateInit /\ [][CreateNext]_vars

\* C18 as stated: whatever the job has done, the config and post_config of
\* the caller's ReturnnConfig and the caller's train_data and dev_data hold
\* what they held before the job was constructed.
C18_CallerInputsUnchanged ==
    CallerView(train_job.kwargs) = train_job.before

=============================================================================
